---- MODULE Spec2Model ----
(***************************************************************************)
(* Model of the debate scheduler (src/debate_scheduler.py) as driven by    *)
(* its callers (main() and src/app.py): build_pairings per category, then  *)
(* schedule_sessions, then verify.                                         *)
(*                                                                         *)
(* A team identifier "<school> #<k>" is the pair <<school, k>>; a match is *)
(* a pair <<a, b>> of teams; an assignment is <<level, a, b>>.             *)
(* Python exceptions are the values of err: ValueError is the spec's       *)
(* ConfigurationError, RuntimeError its StuckAssignmentError and           *)
(* AssertionError its InvariantViolation.                                  *)
(***************************************************************************)
EXTENDS Integers, Sequences, FiniteSets, TLC

\* ------------------------------------------------------------------ bounds
MaxTeams == 4          \* teams of one category's roster
MaxAllTeams == 5       \* teams of both rosters together
MaxMatches == 3        \* matches one category needs (teams * games_per_team / 2)
MaxGames == 2          \* games_per_team
MaxRooms == 3          \* rooms, from -1 up
MaxRuns == 2           \* runs of the pipeline one behaviour of SpecRuns makes
MaxWideTeams == 4      \* teams of one category's roster, under SpecWide
MaxWideAllTeams == 6   \* teams of both rosters together, under SpecWide
MaxWideMatches == 4    \* matches one category needs, under SpecWide
MaxCapRooms == 4       \* rooms of a call of capacities_with_free_spread_at_end
MaxTotalMatches == 9   \* total_matches of such a call
MaxMinSessions == 3    \* min_sessions of such a call
MaxVerifySessions == 2     \* sessions of a schedule verify is called on by itself
MaxVerifyAssignments == 2  \* assignments of such a schedule

VARIABLES
    \* --- the caller's inputs
    teams,              \* level -> roster (sequence of teams); DOMAIN = levels given
    games_per_team,
    rooms,
    want_mix_each_session,
    \* --- the random module's generator
    rng,                \* draws made since random.seed(42)
    tape,               \* position -> what the seed-42 stream decided there
    \* --- control
    pc,
    err,                \* "" or the exception that ended the run
    \* --- build_pairings
    level,              \* category being paired
    pairs, degree, used_vs, school_pair_count, result, step,
    relaxed,            \* the last selection came from the opponent-repeat relaxation
    pairings_by_level,
    \* --- schedule_sessions
    remaining, total_remaining, caps, s_idx, sessions,
    used, s1_matches, s2_matches, target,
    placed,             \* levels of the current session's matches, in the order placed
    pass_start,         \* total_remaining when the current pass of the drain loop began
    \* --- successive runs
    run, fresh, prev,
    \* --- a call of capacities_with_free_spread_at_end by itself
    cap_call            \* its arguments and, once it returned, its list

inputVars == <<teams, games_per_team, rooms, want_mix_each_session>>
rngVars == <<rng, tape>>
pairVars == <<level, pairs, degree, used_vs, school_pair_count, result, step, relaxed>>
schedVars == <<remaining, total_remaining, caps, s_idx, sessions,
               used, s1_matches, s2_matches, target, placed, pass_start>>
runVars == <<run, fresh, prev>>
callVars == <<cap_call>>
vars == <<inputVars, rngVars, pc, err, pairVars, pairings_by_level, schedVars, runVars, callVars>>

\* ----------------------------------------------------------------- helpers
Range(s) == {s[i] : i \in DOMAIN s}

RECURSIVE SumSeq(_)
SumSeq(s) == IF s = <<>> THEN 0 ELSE Head(s) + SumSeq(Tail(s))

RECURSIVE Flatten(_)
Flatten(ss) == IF ss = <<>> THEN <<>> ELSE Head(ss) \o Flatten(Tail(ss))

Count(s, x) == Cardinality({i \in DOMAIN s : s[i] = x})

RemoveAt(s, i) == [j \in 1..(Len(s) - 1) |-> IF j < i THEN s[j] ELSE s[j + 1]]

Max(a, b) == IF a >= b THEN a ELSE b

\* math.ceil(a / b) for integers a >= 0 and b # 0
Ceil(a, b) == IF b > 0 THEN (a + b - 1) \div b ELSE -(a \div (-b))

Levels == <<"S1", "S2">>

\* -------------------------------------------------------------- the rosters
SchoolNames == <<"A", "B", "C", "D", "E", "F", "G", "H", "I", "J">>

\* the lists of team counts per school, at most n teams in all
RECURSIVE CountLists(_)
CountLists(n) ==
    IF n <= 0 THEN {<<>>}
    ELSE {<<>>} \cup UNION {{<<k>> \o r : r \in CountLists(n - k)} : k \in 1..n}

\* src/debate_scheduler.py input_schools / src/app.py render_school_list:
\* school number i, named names[i], enters the teams "<name> #1" .. "<name> #counts[i]"
RECURSIVE RosterFrom(_, _, _)
RosterFrom(counts, names, i) ==
    IF i > Len(counts) THEN <<>>
    ELSE [k \in 1..counts[i] |-> <<names[i], k>>] \o RosterFrom(counts, names, i + 1)

Rosters(names) == {RosterFrom(c, names, 1) : c \in CountLists(MaxTeams) \ {<<>>}}

\* the second category's schools are the first category's or other schools
OtherNames == [i \in 1..MaxTeams |-> SchoolNames[i + MaxTeams]]

Mappings ==
    LET r1 == Rosters(SchoolNames)
        r2 == Rosters(SchoolNames) \cup Rosters(OtherNames)
    IN  {[l \in {"S1"} |-> a] : a \in r1}
        \cup {[l \in {"S2"} |-> b] : b \in r1}
        \cup {[l \in {"S1", "S2"} |-> IF l = "S1" THEN p[1] ELSE p[2]] :
                p \in {q \in r1 \X r2 : Len(q[1]) + Len(q[2]) <= MaxAllTeams}}

t2s(t) == t[1]

\* ------------------------------------------------------- the random source
\* One decision of the generator at position at: x is what the seed-42 stream
\* makes of the question asked there (the candidates to choose among, the list
\* to shuffle).  A position already on the tape (an earlier process ran through
\* it with the same question) yields what it yielded then.
Drawn(at, question, x) ==
    (at \in DOMAIN tape /\ tape[at].from = question) => x = tape[at].pick

Record(at, question, x) == at :> [from |-> question, pick |-> x]

\* ---------------------------------------------------------- build_pairings
\* itertools.combinations(ts, 2), in its order
RECURSIVE combinations2(_)
combinations2(ts) ==
    IF Len(ts) < 2 THEN <<>>
    ELSE [j \in 1..(Len(ts) - 1) |-> <<ts[1], ts[j + 1]>>] \o combinations2(Tail(ts))

\* a variant that forgets the school filter of line 74
all_allowed_pairs_any(ts) == combinations2(ts)

all_allowed_pairs(ts) ==
    SelectSeq(combinations2(ts), LAMBDA p : t2s(p[1]) # t2s(p[2]))

\* the (sa, sb) / (sb, sa) key of an inter-school pair: the unordered pair
sp_key(a, b) == {t2s(a), t2s(b)}

\* (c1, c2, c3) of pair_cost; c4, the random value, is the generator's draw
pair_cost(a, b) ==
    <<Max(degree[a], degree[b]),
      school_pair_count[sp_key(a, b)],
      IF b \in used_vs[a] THEN 1 ELSE 0>>

CostLess(x, y) ==
    \/ x[1] < y[1]
    \/ x[1] = y[1] /\ x[2] < y[2]
    \/ x[1] = y[1] /\ x[2] = y[2] /\ x[3] < y[3]

required_matches == (Len(teams[level]) * games_per_team) \div 2

\* a variant of the first pass with the test of line 125 inverted
FreshCandidates_inverted ==
    SelectSeq(pairs, LAMBDA p : /\ degree[p[1]] < games_per_team
                                /\ degree[p[2]] < games_per_team
                                /\ p[2] \in used_vs[p[1]])

\* candidates of the first pass: both below games_per_team, not yet opponents
FreshCandidates ==
    SelectSeq(pairs, LAMBDA p : /\ degree[p[1]] < games_per_team
                                /\ degree[p[2]] < games_per_team
                                /\ p[2] \notin used_vs[p[1]])

\* a variant of the relaxation that takes any inter-school pair
RelaxedCandidates_any == pairs

\* candidates of the relaxation: both below games_per_team
RelaxedCandidates ==
    SelectSeq(pairs, LAMBDA p : /\ degree[p[1]] < games_per_team
                                /\ degree[p[2]] < games_per_team)

Candidates == IF FreshCandidates # <<>> THEN FreshCandidates ELSE RelaxedCandidates

\* a variant in which the random value alone decides among all candidates
Tied_any(cands) == Range(cands)

\* the candidates that min() can return: minimal on (c1, c2, c3); the random c4
\* decides among them
Tied(cands) ==
    {p \in Range(cands) :
        \A q \in Range(cands) : ~CostLess(pair_cost(q[1], q[2]), pair_cost(p[1], p[2]))}

NextLevelAfter(l) ==
    IF l = "S1" /\ "S2" \in DOMAIN teams THEN "S2" ELSE "none"

Raise(e) ==
    /\ pc' = "raised"
    /\ err' = e

\* a variant without the check of lines 100-101 (no inter-school pair)
BuildPairingsEnter_nopaircheck ==
    /\ pc = "bp_enter"
    /\ LET ts == teams[level]
           n == Len(ts)
           ps == all_allowed_pairs(ts)
       IN  IF \/ n < 2
              \/ games_per_team < 1
              \/ (n * games_per_team) % 2 # 0
           THEN /\ Raise("ValueError")
                /\ UNCHANGED <<pairs, degree, used_vs, school_pair_count, result, step>>
           ELSE /\ pc' = "bp_loop"
                /\ pairs' = ps
                /\ degree' = [t \in Range(ts) |-> 0]
                /\ used_vs' = [t \in Range(ts) |-> {}]
                /\ school_pair_count' = [k \in {sp_key(p[1], p[2]) : p \in Range(ps)} |-> 0]
                /\ result' = <<>>
                /\ step' = 0
                /\ UNCHANGED err
    /\ UNCHANGED <<inputVars, rngVars, level, relaxed, pairings_by_level, schedVars, runVars, callVars>>

\* lines 89-106: the precondition checks and the initial counters
BuildPairingsEnter ==
    /\ pc = "bp_enter"
    /\ LET ts == teams[level]
           n == Len(ts)
           ps == all_allowed_pairs(ts)
       IN  IF \/ n < 2
              \/ games_per_team < 1
              \/ (n * games_per_team) % 2 # 0
              \/ ps = <<>>
           THEN /\ Raise("ValueError")
                /\ UNCHANGED <<pairs, degree, used_vs, school_pair_count, result, step>>
           ELSE /\ pc' = "bp_loop"
                /\ pairs' = ps
                /\ degree' = [t \in Range(ts) |-> 0]
                /\ used_vs' = [t \in Range(ts) |-> {}]
                /\ school_pair_count' = [k \in {sp_key(p[1], p[2]) : p \in Range(ps)} |-> 0]
                /\ result' = <<>>
                /\ step' = 0
                /\ UNCHANGED err
    /\ UNCHANGED <<inputVars, rngVars, level, relaxed, pairings_by_level, schedVars, runVars, callVars>>

\* a variant that keeps result free of duplicates: a repeated opponent pair is
\* counted in degree but not appended again
SelectPair_dedup ==
    /\ pc = "bp_loop"
    /\ step < required_matches
    /\ Candidates # <<>>
    /\ \E p \in Tied(Candidates) :
        /\ Drawn(rng, Candidates, p)
        /\ tape' = Record(rng, Candidates, p) @@ tape
        /\ result' = IF p \in Range(result) THEN result ELSE Append(result, p)
        /\ degree' = [degree EXCEPT ![p[1]] = @ + 1, ![p[2]] = @ + 1]
        /\ used_vs' = [used_vs EXCEPT ![p[1]] = @ \cup {p[2]}, ![p[2]] = @ \cup {p[1]}]
        /\ school_pair_count' = [school_pair_count EXCEPT ![sp_key(p[1], p[2])] = @ + 1]
    /\ rng' = rng + Len(Candidates)
    /\ relaxed' = (FreshCandidates = <<>>)
    /\ step' = step + 1
    /\ UNCHANGED <<inputVars, pc, err, level, pairs, pairings_by_level, schedVars, runVars, callVars>>

\* a variant that counts the selected match for its first team only
SelectPair_onesided ==
    /\ pc = "bp_loop"
    /\ step < required_matches
    /\ Candidates # <<>>
    /\ \E p \in Tied(Candidates) :
        /\ Drawn(rng, Candidates, p)
        /\ tape' = Record(rng, Candidates, p) @@ tape
        /\ result' = Append(result, p)
        /\ degree' = [degree EXCEPT ![p[1]] = @ + 1]
        /\ used_vs' = [used_vs EXCEPT ![p[1]] = @ \cup {p[2]}, ![p[2]] = @ \cup {p[1]}]
        /\ school_pair_count' = [school_pair_count EXCEPT ![sp_key(p[1], p[2])] = @ + 1]
    /\ rng' = rng + Len(Candidates)
    /\ relaxed' = (FreshCandidates = <<>>)
    /\ step' = step + 1
    /\ UNCHANGED <<inputVars, pc, err, level, pairs, pairings_by_level, schedVars, runVars, callVars>>

\* lines 120-142, one iteration that finds a candidate
SelectPair ==
    /\ pc = "bp_loop"
    /\ step < required_matches
    /\ Candidates # <<>>
    /\ \E p \in Tied(Candidates) :
        /\ Drawn(rng, Candidates, p)
        /\ tape' = Record(rng, Candidates, p) @@ tape
        /\ result' = Append(result, p)
        /\ degree' = [degree EXCEPT ![p[1]] = @ + 1, ![p[2]] = @ + 1]
        /\ used_vs' = [used_vs EXCEPT ![p[1]] = @ \cup {p[2]}, ![p[2]] = @ \cup {p[1]}]
        /\ school_pair_count' = [school_pair_count EXCEPT ![sp_key(p[1], p[2])] = @ + 1]
    /\ rng' = rng + Len(Candidates)
    /\ relaxed' = (FreshCandidates = <<>>)
    /\ step' = step + 1
    /\ UNCHANGED <<inputVars, pc, err, level, pairs, pairings_by_level, schedVars, runVars, callVars>>

\* lines 129-135, the iteration that finds none even with an opponent repeat
RaiseStuck ==
    /\ pc = "bp_loop"
    /\ step < required_matches
    /\ Candidates = <<>>
    /\ Raise("RuntimeError")
    /\ UNCHANGED <<inputVars, rngVars, pairVars, pairings_by_level, schedVars, runVars, callVars>>

\* lines 144-149: the sanity check and the return to the caller, which goes on
\* to the next category or to schedule_sessions
BuildPairingsReturn ==
    /\ pc = "bp_loop"
    /\ step = required_matches
    /\ IF \E t \in Range(teams[level]) : degree[t] # games_per_team
       THEN /\ Raise("AssertionError")
            /\ UNCHANGED <<level, pairings_by_level>>
       ELSE /\ pairings_by_level' = (level :> result) @@ pairings_by_level
            /\ level' = NextLevelAfter(level)
            /\ pc' = IF level' = "none" THEN "ss_enter" ELSE "bp_enter"
            /\ UNCHANGED err
    /\ UNCHANGED <<inputVars, rngVars, pairs, degree, used_vs, school_pair_count,
                   result, step, relaxed, schedVars, runVars, callVars>>

\* -------------------------------------------------------- schedule_sessions
\* random.shuffle(v): the orders a list can come out in
Shuffles(v) == {[i \in 1..Len(v) |-> v[p[i]]] : p \in Permutations(1..Len(v))}

\* lines 155-157, for rooms # 0; teams_by_level as line 207 derives it
min_sessions_needed(r, by_level, g) ==
    LET lv == DOMAIN by_level
        n(l) == Cardinality(UNION {{m[1], m[2]} : m \in Range(by_level[l])})
        per == [i \in 1..Len(Levels) |->
                   IF Levels[i] \in lv THEN (n(Levels[i]) * g) \div 2 ELSE 0]
    IN  Max(g, Ceil(SumSeq(per), r))

\* lines 179-186: take the free slots one per session from the end, wrapping
RECURSIVE SpreadFree(_, _, _)
SpreadFree(c, free_slots, i) ==
    IF ~(free_slots > 0 /\ i >= 0) THEN c
    ELSE LET hit == c[i + 1] > 0
             c2 == IF hit THEN [c EXCEPT ![i + 1] = @ - 1] ELSE c
             f2 == IF hit THEN free_slots - 1 ELSE free_slots
         IN  SpreadFree(c2, f2, IF i - 1 < 0 /\ f2 > 0 THEN Len(c) - 1 ELSE i - 1)

\* lines 159-187, for r # 0
capacities_with_free_spread_at_end(r, total_matches, min_sessions) ==
    LET S0 == Max(2, min_sessions)
        S == IF S0 * r < total_matches THEN Ceil(total_matches, r) ELSE S0
        c == [i \in 1..S |-> r]
    IN  SpreadFree(c, S * r - total_matches, S - 1)

\* a variant that pops the first match whatever teams the session has used
pop_match_first(lvl, used_teams) == IF remaining[lvl] = <<>> THEN 0 ELSE 1

\* lines 214-219: the index in remaining[lvl] of the first match with both teams
\* unused, 0 for None
pop_match(lvl, used_teams) ==
    LET ok == {i \in DOMAIN remaining[lvl] :
                  /\ remaining[lvl][i][1] \notin used_teams
                  /\ remaining[lvl][i][2] \notin used_teams}
    IN  IF ok = {} THEN 0 ELSE CHOOSE i \in ok : \A j \in ok : i <= j

OtherLevel(l) == IF l = "S1" THEN "S2" ELSE "S1"

\* lines 252-260: the first level, S1 then S2, under its target with matches left
MixChoice ==
    IF "S1" \in DOMAIN target /\ Len(s1_matches) < target["S1"] /\ remaining["S1"] # <<>>
    THEN "S1"
    ELSE IF "S2" \in DOMAIN target /\ Len(s2_matches) < target["S2"]
            /\ remaining["S2"] # <<>>
    THEN "S2"
    ELSE "None"

\* lines 263-267 and 288-292: the level with more matches left; remaining["S1"]
\* and remaining["S2"] are both read
LargerChoice ==
    IF ~({"S1", "S2"} \subseteq DOMAIN remaining) THEN "KeyError"
    ELSE LET first == IF Len(remaining["S1"]) >= Len(remaining["S2"]) THEN "S1" ELSE "S2"
         IN  IF remaining[first] # <<>> THEN first
             ELSE IF remaining[OtherLevel(first)] # <<>> THEN OtherLevel(first)
             ELSE "break"

\* a variant that never looks at the targets
Chosen_nomix(mix) == LargerChoice

Chosen(mix) == IF mix /\ MixChoice # "None" THEN MixChoice ELSE LargerChoice

\* lines 269-274 and 293-298: pop from the chosen level, else from the other one
Attempt(ch) ==
    IF ch \in {"KeyError", "break"} THEN [kind |-> ch]
    ELSE IF pop_match(ch, used) # 0
    THEN [kind |-> "place", lvl |-> ch, idx |-> pop_match(ch, used)]
    ELSE IF OtherLevel(ch) \notin DOMAIN remaining THEN [kind |-> "KeyError"]
    ELSE IF pop_match(OtherLevel(ch), used) # 0
    THEN [kind |-> "place", lvl |-> OtherLevel(ch), idx |-> pop_match(OtherLevel(ch), used)]
    ELSE [kind |-> "break"]

\* a variant of the while condition that is off by one (<= cap)
Filling_inclusive ==
    Len(s1_matches) + Len(s2_matches) <= caps[s_idx + 1] /\ total_remaining > 0

\* the while condition of lines 250 and 287
Filling == Len(s1_matches) + Len(s2_matches) < caps[s_idx + 1] /\ total_remaining > 0

\* lines 217 and 241-246 (299-309 in the drain loop): the match leaves remaining
\* and joins the session's S1 or S2 list
Place(a) ==
    LET m == remaining[a.lvl][a.idx]
    IN  /\ remaining' = [remaining EXCEPT ![a.lvl] = RemoveAt(@, a.idx)]
        /\ IF a.lvl = "S1"
           THEN /\ s1_matches' = Append(s1_matches, <<a.lvl, m[1], m[2]>>)
                /\ UNCHANGED s2_matches
           ELSE /\ s2_matches' = Append(s2_matches, <<a.lvl, m[1], m[2]>>)
                /\ UNCHANGED s1_matches
        /\ used' = used \cup {m[1], m[2]}
        /\ placed' = Append(placed, a.lvl)
        /\ total_remaining' = total_remaining - 1

\* lines 202-204: the orders the private copy of a level's list can come out in
ShufflesOf(l) ==
    IF l \in DOMAIN pairings_by_level THEN Shuffles(pairings_by_level[l]) ELSE {<<>>}

\* the levels passed, in the order the caller inserted them
GivenLevels == SelectSeq(Levels, LAMBDA l : l \in DOMAIN pairings_by_level)

\* a variant without the copies of line 202: the caller's lists are shuffled
ScheduleEnter_inplace ==
    /\ pc = "ss_enter"
    /\ \E r1 \in ShufflesOf("S1"), r2 \in ShufflesOf("S2") :
        LET rem == [l \in DOMAIN pairings_by_level |-> IF l = "S1" THEN r1 ELSE r2]
            at(i) == rng + i - 1
            total == Len(r1) + Len(r2)
        IN  /\ \A i \in DOMAIN GivenLevels :
                  Drawn(at(i), pairings_by_level[GivenLevels[i]], rem[GivenLevels[i]])
            /\ tape' = [p \in {at(i) : i \in DOMAIN GivenLevels} |->
                          [from |-> pairings_by_level[GivenLevels[p - rng + 1]],
                           pick |-> rem[GivenLevels[p - rng + 1]]]] @@ tape
            /\ rng' = rng + Len(GivenLevels)
            /\ remaining' = rem
            /\ pairings_by_level' = rem
            /\ total_remaining' = total
            /\ IF rooms = 0
               THEN /\ Raise("ZeroDivisionError")
                    /\ UNCHANGED caps
               ELSE /\ caps' = capacities_with_free_spread_at_end(rooms, total,
                                  min_sessions_needed(rooms, pairings_by_level, games_per_team))
                    /\ pc' = "plan"
                    /\ UNCHANGED err
    /\ sessions' = <<>>
    /\ s_idx' = 0
    /\ UNCHANGED <<inputVars, pairVars, used, s1_matches, s2_matches,
                   target, placed, pass_start, runVars, callVars>>

\* lines 202-212: private shuffled copies, the estimate and the planned capacities
ScheduleEnter ==
    /\ pc = "ss_enter"
    /\ \E r1 \in ShufflesOf("S1"), r2 \in ShufflesOf("S2") :
        LET rem == [l \in DOMAIN pairings_by_level |-> IF l = "S1" THEN r1 ELSE r2]
            at(i) == rng + i - 1
            total == Len(r1) + Len(r2)
        IN  /\ \A i \in DOMAIN GivenLevels :
                  Drawn(at(i), pairings_by_level[GivenLevels[i]], rem[GivenLevels[i]])
            /\ tape' = [p \in {at(i) : i \in DOMAIN GivenLevels} |->
                          [from |-> pairings_by_level[GivenLevels[p - rng + 1]],
                           pick |-> rem[GivenLevels[p - rng + 1]]]] @@ tape
            /\ rng' = rng + Len(GivenLevels)
            /\ remaining' = rem
            /\ total_remaining' = total
            /\ IF rooms = 0
               THEN /\ Raise("ZeroDivisionError")
                    /\ UNCHANGED caps
               ELSE /\ caps' = capacities_with_free_spread_at_end(rooms, total,
                                  min_sessions_needed(rooms, pairings_by_level, games_per_team))
                    /\ pc' = "plan"
                    /\ UNCHANGED err
    /\ sessions' = <<>>
    /\ s_idx' = 0
    /\ UNCHANGED <<inputVars, pairVars, pairings_by_level, used, s1_matches, s2_matches,
                   target, placed, pass_start, runVars, callVars>>

\* lines 221-234: the next planned session; an entirely free one when nothing is left
SessionStart ==
    /\ pc = "plan"
    /\ s_idx < Len(caps)
    /\ IF total_remaining = 0
       THEN /\ sessions' = Append(sessions, <<>>)
            /\ s_idx' = s_idx + 1
            /\ UNCHANGED <<pc, used, s1_matches, s2_matches, target, placed>>
       ELSE /\ used' = {}
            /\ s1_matches' = <<>>
            /\ s2_matches' = <<>>
            /\ placed' = <<>>
            /\ target' = [l \in DOMAIN remaining |->
                            Ceil(Len(remaining[l]), Len(caps) - s_idx)]
            /\ pc' = "fill"
            /\ UNCHANGED <<sessions, s_idx>>
    /\ UNCHANGED <<inputVars, rngVars, err, pairVars, pairings_by_level, remaining,
                   total_remaining, caps, pass_start, runVars, callVars>>

\* lines 250-274, one iteration that places a match
PlaceMatch ==
    /\ pc = "fill"
    /\ Filling
    /\ Attempt(Chosen(want_mix_each_session)).kind = "place"
    /\ Place(Attempt(Chosen(want_mix_each_session)))
    /\ UNCHANGED <<inputVars, rngVars, pc, err, pairVars, pairings_by_level, caps, s_idx,
                   sessions, target, pass_start, runVars, callVars>>

\* a variant that concatenates the S2 list first
CloseSession_s2first ==
    /\ pc = "fill"
    /\ ~Filling \/ Attempt(Chosen(want_mix_each_session)).kind = "break"
    /\ sessions' = Append(sessions, s2_matches \o s1_matches)
    /\ s_idx' = s_idx + 1
    /\ pc' = "plan"
    /\ UNCHANGED <<inputVars, rngVars, err, pairVars, pairings_by_level, remaining,
                   total_remaining, caps, used, s1_matches, s2_matches, target,
                   placed, pass_start, runVars, callVars>>

\* lines 250, 267, 274 and 276-278: the session is full, or nothing is left, or
\* nothing is placeable; S1 matches first, then S2
CloseSession ==
    /\ pc = "fill"
    /\ ~Filling \/ Attempt(Chosen(want_mix_each_session)).kind = "break"
    /\ sessions' = Append(sessions, s1_matches \o s2_matches)
    /\ s_idx' = s_idx + 1
    /\ pc' = "plan"
    /\ UNCHANGED <<inputVars, rngVars, err, pairVars, pairings_by_level, remaining,
                   total_remaining, caps, used, s1_matches, s2_matches, target,
                   placed, pass_start, runVars, callVars>>

\* lines 263 and 272 (through 215): remaining[...] of a level the caller did not pass
FillKeyError ==
    /\ pc = "fill"
    /\ Filling
    /\ Attempt(Chosen(want_mix_each_session)).kind = "KeyError"
    /\ Raise("KeyError")
    /\ UNCHANGED <<inputVars, rngVars, pairVars, pairings_by_level, schedVars, runVars, callVars>>

\* a variant without the drain loop: the planned sessions are returned as they are
DrainHead_nodrain ==
    /\ pc = "plan" /\ s_idx = Len(caps)
    /\ pc' = "returned"
    /\ UNCHANGED <<inputVars, rngVars, err, pairVars, pairings_by_level, schedVars, runVars, callVars>>

\* line 281, after the planned sessions and after each pass: return, or line 282
DrainHead ==
    /\ \/ pc = "plan" /\ s_idx = Len(caps)
       \/ pc = "drain" /\ s_idx = Len(caps)
    /\ IF total_remaining > 0
       THEN /\ caps' = capacities_with_free_spread_at_end(rooms, total_remaining, 1)
            /\ s_idx' = 0
            /\ pass_start' = total_remaining
            /\ pc' = "drain"
       ELSE /\ pc' = "returned"
            /\ UNCHANGED <<caps, s_idx, pass_start>>
    /\ UNCHANGED <<inputVars, rngVars, err, pairVars, pairings_by_level, remaining,
                   total_remaining, sessions, used, s1_matches, s2_matches, target,
                   placed, runVars, callVars>>

\* lines 283-286: the next extra session
DrainSessionStart ==
    /\ pc = "drain"
    /\ s_idx < Len(caps)
    /\ used' = {}
    /\ s1_matches' = <<>>
    /\ s2_matches' = <<>>
    /\ placed' = <<>>
    /\ pc' = "drain_fill"
    /\ UNCHANGED <<inputVars, rngVars, err, pairVars, pairings_by_level, remaining,
                   total_remaining, caps, s_idx, sessions, target, pass_start, runVars, callVars>>

\* lines 287-309, one iteration that places a match (or, at line 288, reads
\* remaining[...] of a level the caller did not pass)
DrainPlace ==
    /\ pc = "drain_fill"
    /\ Filling
    /\ Attempt(Chosen(FALSE)).kind \in {"place", "KeyError"}
    /\ IF Attempt(Chosen(FALSE)).kind = "KeyError"
       THEN /\ Raise("KeyError")
            /\ UNCHANGED <<remaining, total_remaining, used, s1_matches, s2_matches, placed>>
       ELSE /\ Place(Attempt(Chosen(FALSE)))
            /\ UNCHANGED <<pc, err>>
    /\ UNCHANGED <<inputVars, rngVars, pairVars, pairings_by_level, caps, s_idx,
                   sessions, target, pass_start, runVars, callVars>>

\* lines 287, 292, 298 and 310
DrainClose ==
    /\ pc = "drain_fill"
    /\ ~Filling \/ Attempt(Chosen(FALSE)).kind = "break"
    /\ sessions' = Append(sessions, s1_matches \o s2_matches)
    /\ s_idx' = s_idx + 1
    /\ pc' = "drain"
    /\ UNCHANGED <<inputVars, rngVars, err, pairVars, pairings_by_level, remaining,
                   total_remaining, caps, used, s1_matches, s2_matches, target,
                   placed, pass_start, runVars, callVars>>

\* ------------------------------------------------------------------- verify
\* the assignments verify looks at (line 351 skips a level it was not given)
Checked(sess, by_level) == SelectSeq(sess, LAMBDA x : x[1] \in DOMAIN by_level)

\* per_team[t] of lines 346-360: one counter per team identifier
per_team(ss, by_level, t) ==
    LET all == Checked(Flatten(ss), by_level)
    IN  Cardinality({i \in DOMAIN all : all[i][2] = t})
        + Cardinality({i \in DOMAIN all : all[i][3] = t})

\* lines 346-364: some assert fails
verify_raises(ss, by_level, g, r) ==
    \/ \E k \in DOMAIN ss : Len(ss[k]) > r
    \/ \E k \in DOMAIN ss :
          LET c == Checked(ss[k], by_level)
          IN  \/ \E i \in DOMAIN c :
                    \/ c[i][2] \notin Range(by_level[c[i][1]])
                    \/ c[i][3] \notin Range(by_level[c[i][1]])
                    \/ t2s(c[i][2]) = t2s(c[i][3])
              \/ \E i, j \in DOMAIN c :
                    i < j /\ {c[i][2], c[i][3]} \cap {c[j][2], c[j][3]} # {}
    \/ \E l \in DOMAIN by_level : \E t \in Range(by_level[l]) :
          per_team(ss, by_level, t) # g

\* main() lines 393-399 / app.py lines 212-218: verify is run on the schedule
Verify ==
    /\ pc = "returned"
    /\ IF verify_raises(sessions, teams, games_per_team, rooms)
       THEN Raise("AssertionError")
       ELSE pc' = "verified" /\ UNCHANGED err
    /\ UNCHANGED <<inputVars, rngVars, pairVars, pairings_by_level, schedVars, runVars, callVars>>

\* ---------------------------------------------------------- runs, processes
Ended == pc \in {"verified", "raised"}

FirstLevel == IF "S1" \in DOMAIN teams THEN "S1" ELSE "S2"

\* the locals of a run before its first call
RunStart ==
    /\ pc = "bp_enter"
    /\ err = ""
    /\ level = FirstLevel
    /\ pairs = <<>> /\ degree = <<>> /\ used_vs = <<>> /\ school_pair_count = <<>>
    /\ result = <<>> /\ step = 0 /\ relaxed = FALSE
    /\ pairings_by_level = <<>>
    /\ remaining = <<>> /\ total_remaining = 0 /\ caps = <<>> /\ s_idx = 0
    /\ sessions = <<>> /\ used = {} /\ s1_matches = <<>> /\ s2_matches = <<>>
    /\ target = <<>> /\ placed = <<>> /\ pass_start = 0

\* a later run starts from the same locals
NextRunStart ==
    /\ pc' = "bp_enter"
    /\ err' = ""
    /\ level' = FirstLevel
    /\ pairs' = <<>> /\ degree' = <<>> /\ used_vs' = <<>> /\ school_pair_count' = <<>>
    /\ result' = <<>> /\ step' = 0 /\ relaxed' = FALSE
    /\ pairings_by_level' = <<>>
    /\ remaining' = <<>> /\ total_remaining' = 0 /\ caps' = <<>> /\ s_idx' = 0
    /\ sessions' = <<>> /\ used' = {} /\ s1_matches' = <<>> /\ s2_matches' = <<>>
    /\ target' = <<>> /\ placed' = <<>> /\ pass_start' = 0

Outcome == [pairings |-> pairings_by_level, schedule |-> sessions, pc |-> pc, err |-> err]

\* the same inputs are run again in the same process (a second click on the
\* app's button, a second call from a test): the generator goes on where it is
Rerun ==
    /\ Ended
    /\ run < MaxRuns
    /\ run' = run + 1
    /\ prev' = Outcome
    /\ fresh' = FALSE
    /\ NextRunStart
    /\ UNCHANGED <<inputVars, rngVars, callVars>>

\* the same inputs are run in a new process: importing the module runs
\* random.seed(42) (line 9) again
Restart ==
    /\ Ended
    /\ run < MaxRuns
    /\ run' = run + 1
    /\ prev' = Outcome
    /\ fresh' = TRUE
    /\ rng' = 0
    /\ NextRunStart
    /\ UNCHANGED <<inputVars, tape, callVars>>

\* ----------------------------------------------------------- specification
Init ==
    /\ teams \in Mappings
    /\ games_per_team \in 0..MaxGames
    /\ \A l \in DOMAIN teams : (Len(teams[l]) * games_per_team) \div 2 <= MaxMatches
    /\ rooms \in -1..MaxRooms
    /\ want_mix_each_session \in BOOLEAN
    /\ rng = 0
    /\ tape = <<>>
    /\ run = 1 /\ fresh = TRUE /\ prev = <<>>
    /\ cap_call = <<>>
    /\ RunStart

Next ==
    \/ BuildPairingsEnter
    \/ SelectPair
    \/ RaiseStuck
    \/ BuildPairingsReturn
    \/ ScheduleEnter
    \/ SessionStart
    \/ PlaceMatch
    \/ CloseSession
    \/ FillKeyError
    \/ DrainHead
    \/ DrainSessionStart
    \/ DrainPlace
    \/ DrainClose
    \/ Verify

Spec == Init /\ [][Next]_vars

NextRuns == Next \/ Rerun \/ Restart

SpecRuns == Init /\ [][NextRuns]_vars

\* ------------------------------------------- the pipeline on larger rosters
WideRosters(names) == {RosterFrom(c, names, 1) : c \in CountLists(MaxWideTeams) \ {<<>>}}

WideOtherNames == [i \in 1..MaxWideTeams |-> SchoolNames[i + MaxWideTeams]]

WideMappings ==
    LET r1 == WideRosters(SchoolNames)
        r2 == WideRosters(SchoolNames) \cup WideRosters(WideOtherNames)
    IN  {[l \in {"S1"} |-> a] : a \in r1}
        \cup {[l \in {"S2"} |-> b] : b \in r1}
        \cup {[l \in {"S1", "S2"} |-> IF l = "S1" THEN p[1] ELSE p[2]] :
                p \in {q \in r1 \X r2 : Len(q[1]) + Len(q[2]) <= MaxWideAllTeams}}

\* as Init, for the rosters above, a positive games_per_team and rooms >= 1
InitWide ==
    /\ teams \in WideMappings
    /\ games_per_team \in 1..MaxGames
    /\ \A l \in DOMAIN teams : (Len(teams[l]) * games_per_team) \div 2 <= MaxWideMatches
    /\ rooms \in 1..MaxRooms
    /\ want_mix_each_session \in BOOLEAN
    /\ rng = 0
    /\ tape = <<>>
    /\ run = 1 /\ fresh = TRUE /\ prev = <<>>
    /\ cap_call = <<>>
    /\ RunStart

SpecWide == InitWide /\ [][Next]_vars

\* -------------------- capacities_with_free_spread_at_end, called by itself
\* the pipeline's variables while a function is called by itself
NoRun ==
    /\ rng = 0 /\ tape = <<>>
    /\ err = ""
    /\ level = "none"
    /\ pairs = <<>> /\ degree = <<>> /\ used_vs = <<>> /\ school_pair_count = <<>>
    /\ result = <<>> /\ step = 0 /\ relaxed = FALSE
    /\ pairings_by_level = <<>>
    /\ remaining = <<>> /\ total_remaining = 0 /\ caps = <<>> /\ s_idx = 0
    /\ used = {} /\ s1_matches = <<>> /\ s2_matches = <<>>
    /\ target = <<>> /\ placed = <<>> /\ pass_start = 0
    /\ run = 1 /\ fresh = TRUE /\ prev = <<>>

\* the arguments of a call (lines 159-161)
CapArgs ==
    [rooms : 1..MaxCapRooms,
     total_matches : 0..MaxTotalMatches,
     min_sessions : 1..MaxMinSessions]

InitCaps ==
    /\ cap_call \in {[args |-> a, returned |-> FALSE, caps |-> <<>>,
                       free_slots |-> 0, i |-> 0] : a \in CapArgs}
    /\ pc = "caps_call"
    /\ teams = <<>> /\ games_per_team = 0 /\ rooms = 0 /\ want_mix_each_session = FALSE
    /\ sessions = <<>>
    /\ NoRun

\* lines 168-179: the number of sessions, the full capacities, the free slots
\* to take away and the index of the last session
CapsCall ==
    /\ pc = "caps_call"
    /\ ~cap_call.returned
    /\ LET r == cap_call.args.rooms
           t == cap_call.args.total_matches
           S0 == Max(2, cap_call.args.min_sessions)
           S == IF S0 * r < t THEN Ceil(t, r) ELSE S0
       IN  cap_call' = [cap_call EXCEPT
                           !.caps = [k \in 1..S |-> r],
                           !.free_slots = S * r - t,
                           !.i = S - 1]
    /\ pc' = "caps_loop"
    /\ UNCHANGED <<inputVars, rngVars, err, pairVars, pairings_by_level, schedVars, runVars>>

\* a variant of the loop that does not wrap: lines 185-186 are left out
CapsLoop_nowrap ==
    /\ pc = "caps_loop"
    /\ cap_call.free_slots > 0 /\ cap_call.i >= 0
    /\ LET hit == cap_call.caps[cap_call.i + 1] > 0
           f2 == IF hit THEN cap_call.free_slots - 1 ELSE cap_call.free_slots
       IN  cap_call' = [cap_call EXCEPT
                           !.caps = IF hit THEN [@ EXCEPT ![cap_call.i + 1] = @ - 1] ELSE @,
                           !.free_slots = f2,
                           !.i = cap_call.i - 1]
    /\ UNCHANGED <<inputVars, rngVars, pc, err, pairVars, pairings_by_level, schedVars, runVars>>

\* lines 180-186, one iteration of the while loop
CapsLoop ==
    /\ pc = "caps_loop"
    /\ cap_call.free_slots > 0 /\ cap_call.i >= 0
    /\ LET hit == cap_call.caps[cap_call.i + 1] > 0
           f2 == IF hit THEN cap_call.free_slots - 1 ELSE cap_call.free_slots
       IN  cap_call' = [cap_call EXCEPT
                           !.caps = IF hit THEN [@ EXCEPT ![cap_call.i + 1] = @ - 1] ELSE @,
                           !.free_slots = f2,
                           !.i = IF cap_call.i - 1 < 0 /\ f2 > 0
                                 THEN Len(cap_call.caps) - 1
                                 ELSE cap_call.i - 1]
    /\ UNCHANGED <<inputVars, rngVars, pc, err, pairVars, pairings_by_level, schedVars, runVars>>

\* lines 180 and 187: the while condition fails and caps is returned
CapsReturn ==
    /\ pc = "caps_loop"
    /\ ~(cap_call.free_slots > 0 /\ cap_call.i >= 0)
    /\ cap_call' = [cap_call EXCEPT !.returned = TRUE]
    /\ pc' = "caps_returned"
    /\ UNCHANGED <<inputVars, rngVars, err, pairVars, pairings_by_level, schedVars, runVars>>

NextCaps ==
    \/ CapsCall
    \/ CapsLoop
    \/ CapsReturn

SpecCaps == InitCaps /\ [][NextCaps]_vars

\* the call is sequential code: when it can take a step it takes it
SpecCapsFair == SpecCaps /\ WF_vars(NextCaps)

\* ------------------------------------- verify, called on any schedule at all
\* the team identifiers of the schedules and rosters verify is called with
VerifyTeams == <<<<"A", 1>>, <<"A", 2>>, <<"B", 1>>>>

\* rosters of two teams
VerifyRosters == Range(combinations2(VerifyTeams))

\* teams_by_level: S1 only, or S1 and S2
VerifyMappings ==
    {[l \in {"S1"} |-> a] : a \in VerifyRosters}
    \cup {[l \in {"S1", "S2"} |-> IF l = "S1" THEN p[1] ELSE p[2]] :
            p \in VerifyRosters \X VerifyRosters}

\* the assignments a schedule can hold
VerifyAssignments ==
    {<<l, m[1], m[2]>> : l \in Range(Levels), m \in Range(combinations2(VerifyTeams))}

\* sessions of at most n assignments
RECURSIVE VerifySessions(_)
VerifySessions(n) ==
    IF n = 0 THEN {<<>>}
    ELSE {<<>>} \cup {<<x>> \o r : x \in VerifyAssignments, r \in VerifySessions(n - 1)}

\* schedules of at most k sessions and at most n assignments in all
RECURSIVE VerifySchedules(_, _)
VerifySchedules(k, n) ==
    IF k = 0 THEN {<<>>}
    ELSE {<<>>} \cup UNION {{<<sess>> \o r : r \in VerifySchedules(k - 1, n - Len(sess))} :
                               sess \in VerifySessions(n)}

InitVerify ==
    /\ teams \in VerifyMappings
    /\ games_per_team \in 1..MaxGames
    /\ rooms \in 1..MaxRooms
    /\ want_mix_each_session = TRUE
    /\ sessions \in VerifySchedules(MaxVerifySessions, MaxVerifyAssignments)
    /\ pc = "returned"
    /\ cap_call = <<>>
    /\ NoRun

NextVerify == Verify

SpecVerify == InitVerify /\ [][NextVerify]_vars

\* ------------------------------------------------------------------ claims
\* schedule_sessions has been called (every category is paired and lines 202-212 ran)
ScheduleEntered == DOMAIN pairings_by_level = DOMAIN teams /\ pc # "ss_enter"

\* the number of assignments of a list that involve team t
Appearances(ms, t) == Cardinality({i \in DOMAIN ms : t \in {ms[i][1], ms[i][2]}})

\* the sessions built so far, the one being filled included
AllSessions ==
    IF pc \in {"fill", "drain_fill"} THEN Append(sessions, s1_matches \o s2_matches)
    ELSE sessions

\* C1: for rosters of both categories S1 and S2, a positive games_per_team and
\* rooms >= 1, verify does not raise on the schedule that schedule_sessions
\* returned for the matches of build_pairings.
C1_VerifyNeverRaises ==
    (/\ DOMAIN teams = {"S1", "S2"}
     /\ games_per_team >= 1
     /\ rooms >= 1
     /\ pc = "returned")
        => ~verify_raises(sessions, teams, games_per_team, rooms)

\* C2: a match list returned by build_pairings holds exactly |teams| * G / 2
\* matches and every team of the roster is in exactly G of them.
C2_DegreesAndCount ==
    \A l \in DOMAIN pairings_by_level :
        /\ 2 * Len(pairings_by_level[l]) = Len(teams[l]) * games_per_team
        /\ \A t \in Range(teams[l]) :
              Appearances(pairings_by_level[l], t) = games_per_team

C2_Witness ==
    \E l \in DOMAIN pairings_by_level :
        /\ Len(pairings_by_level[l]) = 3
        /\ games_per_team = 2
        /\ Cardinality(Range(pairings_by_level[l])) = 3

\* C3: no match selected by build_pairings, in the list being built or in a
\* returned list, by the first pass or by the opponent-repeat relaxation, pairs
\* two teams of the same school.
C3_NoIntraSchool ==
    /\ \A i \in DOMAIN result : t2s(result[i][1]) # t2s(result[i][2])
    /\ \A l \in DOMAIN pairings_by_level : \A i \in DOMAIN pairings_by_level[l] :
          t2s(pairings_by_level[l][i][1]) # t2s(pairings_by_level[l][i][2])

\* a returned list holds a repeated opponent pair (the relaxation chose it) and
\* a match has been selected from a roster that has two teams of one school
C3_Witness ==
    /\ \E l \in DOMAIN pairings_by_level : \E i, j \in DOMAIN pairings_by_level[l] :
          i < j /\ pairings_by_level[l][i] = pairings_by_level[l][j]
    /\ level \in DOMAIN teams
    /\ result # <<>>
    /\ \E i, j \in DOMAIN teams[level] : i < j /\ t2s(teams[level][i]) = t2s(teams[level][j])

\* C4: in every session of the schedule, planned or from the drain loop, no
\* team identifier is in more than one assignment.
C4_NoTeamTwicePerSession ==
    \A k \in DOMAIN AllSessions : \A i, j \in DOMAIN AllSessions[k] :
        i < j => {AllSessions[k][i][2], AllSessions[k][i][3]}
                   \cap {AllSessions[k][j][2], AllSessions[k][j][3]} = {}

\* a returned schedule with a drain-loop session and a session of two assignments
C4_Witness ==
    /\ pc = "returned"
    /\ pass_start > 0
    /\ \E k \in DOMAIN sessions : Len(sessions[k]) >= 2

\* C5: with rooms >= 1, every session of the schedule holds at most rooms
\* assignments.
C5_AtMostRoomsPerSession ==
    rooms >= 1 => \A k \in DOMAIN AllSessions : Len(AllSessions[k]) <= rooms

\* a returned schedule with a full session of two rooms
C5_Witness ==
    /\ pc = "returned"
    /\ rooms = 2
    /\ \E k \in DOMAIN sessions : Len(sessions[k]) = rooms

\* C6: when schedule_sessions returns, the assignments of the schedule are the
\* input matches, each tagged with its own category, as many times as it is in
\* the input.
C6_ScheduleIsInput ==
    pc = "returned" =>
        LET flat == Flatten(sessions)
        IN  /\ \A i \in DOMAIN flat :
                  /\ flat[i][1] \in DOMAIN pairings_by_level
                  /\ Count(flat, flat[i])
                       = Count(pairings_by_level[flat[i][1]], <<flat[i][2], flat[i][3]>>)
            /\ \A l \in DOMAIN pairings_by_level : \A i \in DOMAIN pairings_by_level[l] :
                  Count(flat, <<l, pairings_by_level[l][i][1], pairings_by_level[l][i][2]>>)
                    = Count(pairings_by_level[l], pairings_by_level[l][i])

\* a schedule returned after the drain loop ran, for two categories
C6_Witness ==
    /\ pc = "returned"
    /\ DOMAIN pairings_by_level = {"S1", "S2"}
    /\ pass_start > 0
    /\ Len(Flatten(sessions)) >= 4

\* every remaining match of every category has a team the session already uses
Blocked ==
    /\ total_remaining > 0
    /\ \A l \in DOMAIN remaining : pop_match(l, used) = 0

\* C7: while a session is being filled, when every remaining match of every
\* category conflicts with the teams the session uses, the next step closes
\* the session (appends it, goes on to the next one) and raises nothing.
C7_BlockedSessionCloses ==
    [][(pc \in {"fill", "drain_fill"} /\ Filling /\ Blocked)
          => /\ err' = ""
             /\ sessions' = Append(sessions, s1_matches \o s2_matches)
             /\ s_idx' = s_idx + 1]_vars

\* C8: schedule_sessions called with rooms < 1 raises ValueError (the
\* ConfigurationError) at entry: it is never past its entry in another way.
C8_RoomsBelowOneRejected ==
    (rooms < 1 /\ ScheduleEntered) => (pc = "raised" /\ err = "ValueError")

\* C9: with rooms >= 1, every pass of the drain loop places at least one match
\* and schedule_sessions does not stop with matches unplaced.
C9_SchedulingCompletes ==
    (rooms >= 1 /\ ScheduleEntered) =>
        /\ (pc = "drain" /\ s_idx = Len(caps)) => total_remaining < pass_start
        /\ pc \in {"raised", "returned", "verified"} => total_remaining = 0

\* C10: a second run on the same inputs, in a new process or in the same one,
\* ends as the first did, with the same match lists and the same schedule.
C10_Reproducible ==
    (run > 1 /\ Ended) => Outcome = prev

\* C11: with 4 rooms, 9 matches and the 3 sessions that min_sessions_needed
\* asks for (capacity 12, 3 idle slots), the first planned session has the full
\* capacity of 4 and no idle slot; the idle slots are in the last sessions.
C11_NoIdleSlotInFirstSession ==
    (/\ pc = "caps_returned"
     /\ cap_call.args = [rooms |-> 4, total_matches |-> 9, min_sessions |-> 3])
        => /\ Len(cap_call.caps) = 3
           /\ cap_call.caps[1] = 4

\* C12: in every session of the schedule, every S1 assignment comes before
\* every S2 assignment, whatever the order in which the matches were placed.
C12_S1BeforeS2 ==
    \A k \in DOMAIN sessions : \A i, j \in DOMAIN sessions[k] :
        i < j => ~(sessions[k][i][1] = "S2" /\ sessions[k][j][1] = "S1")

\* the session just closed had an S2 match placed before an S1 match
C12_Witness ==
    /\ pc \in {"plan", "drain"}
    /\ sessions # <<>>
    /\ Len(sessions[Len(sessions)]) = Len(placed)
    /\ \E i, j \in DOMAIN placed : i < j /\ placed[i] = "S2" /\ placed[j] = "S1"

\* C13: for one category whose roster is exactly 2 teams of different schools,
\* with games_per_team = 1 and rooms >= 1, build_pairings returns exactly one
\* match and schedule_sessions returns a schedule of one session, which holds
\* that one assignment.
C13_TwoTeamsOneSession ==
    \A l \in DOMAIN teams :
        (/\ DOMAIN teams = {l}
         /\ Len(teams[l]) = 2
         /\ t2s(teams[l][1]) # t2s(teams[l][2])
         /\ games_per_team = 1
         /\ rooms >= 1
         /\ pc = "returned")
            => /\ Len(pairings_by_level[l]) = 1
               /\ Len(sessions) = 1
               /\ Len(sessions[1]) = 1

\* a roster, or games_per_team, that build_pairings must reject: fewer than 2
\* teams, games_per_team < 1, an odd number of team slots, or all teams of one
\* school
BadRoster(l) ==
    \/ Len(teams[l]) < 2
    \/ games_per_team < 1
    \/ (Len(teams[l]) * games_per_team) % 2 = 1
    \/ \A a, b \in Range(teams[l]) : t2s(a) = t2s(b)

\* C14: on such an input build_pairings raises ValueError (the
\* ConfigurationError) before it selects any match: the call is either at its
\* entry or has raised ValueError, and no list is ever returned for the roster.
C14_BadInputRejected ==
    \A l \in DOMAIN teams :
        BadRoster(l) =>
            /\ l \notin DOMAIN pairings_by_level
            /\ level = l => \/ pc = "bp_enter"
                            \/ pc = "raised" /\ err = "ValueError"

\* the second category, two or more teams all of one school with an even
\* number of team slots, was rejected after the first was paired
C14_Witness ==
    /\ pc = "raised" /\ err = "ValueError"
    /\ level = "S2"
    /\ "S1" \in DOMAIN pairings_by_level
    /\ Len(teams["S2"]) >= 2
    /\ games_per_team >= 1
    /\ (Len(teams["S2"]) * games_per_team) % 2 = 0

\* an assignment of the schedule whose category has no roster or whose teams
\* are not both in the roster of its category
WrongCategory(x) ==
    \/ x[1] \notin DOMAIN teams
    \/ x[2] \notin Range(teams[x[1]])
    \/ x[3] \notin Range(teams[x[1]])

\* C15: verify accepts a schedule only if both teams of every assignment are
\* in the roster of the assignment's category; on a schedule with an
\* assignment that is not, verify raises AssertionError (the InvariantViolation).
C15_VerifyChecksCategory ==
    (/\ pc # "returned"
     /\ \E x \in Range(Flatten(sessions)) : WrongCategory(x))
        => pc = "raised" /\ err = "AssertionError"

\* a step of the selection loop that appends a match to result
SelectionStep ==
    /\ pc = "bp_loop" /\ pc' = "bp_loop"
    /\ step' = step + 1
    /\ Len(result') = Len(result) + 1

\* the two teams have a match in the list ms
Played(ms, a, b) == \E i \in DOMAIN ms : {ms[i][1], ms[i][2]} = {a, b}

\* the number of matches of the list ms between the schools of a and b
SchoolMatches(ms, a, b) ==
    Cardinality({i \in DOMAIN ms : {t2s(ms[i][1]), t2s(ms[i][2])} = {t2s(a), t2s(b)}})

\* an inter-school pair of the roster with both teams below games_per_team
\* matches that has not played yet
FreshPairExists ==
    \E a, b \in Range(teams[level]) :
        /\ t2s(a) # t2s(b)
        /\ Appearances(result, a) < games_per_team
        /\ Appearances(result, b) < games_per_team
        /\ ~Played(result, a, b)

\* C16: build_pairings selects a pair that has already played each other only
\* at a step where no inter-school pair has both teams below games_per_team
\* matches and has not played yet.
C16_RepeatOnlyWhenNoFreshPair ==
    [][SelectionStep =>
         LET p == result'[Len(result')]
         IN  Played(result, p[1], p[2]) => ~FreshPairExists]_vars

\* the last match selected repeats an earlier one
C16_Witness ==
    /\ pc = "bp_loop"
    /\ Len(result) >= 2
    /\ Played(SubSeq(result, 1, Len(result) - 1),
              result[Len(result)][1], result[Len(result)][2])

\* (larger match count of the two teams, earlier matches between their
\* schools, already-played flag) of a pair, from the matches ms selected so far
CostIn(ms, p) ==
    <<Max(Appearances(ms, p[1]), Appearances(ms, p[2])),
      SchoolMatches(ms, p[1], p[2]),
      IF Played(ms, p[1], p[2]) THEN 1 ELSE 0>>

CostOf(p) == CostIn(result, p)

LexLeq(x, y) ==
    \/ x[1] < y[1]
    \/ x[1] = y[1] /\ x[2] < y[2]
    \/ x[1] = y[1] /\ x[2] = y[2] /\ x[3] <= y[3]

\* C17: the pair selected at a step is one of the step's candidates and is
\* minimal among them in the lexicographic order of (larger match count,
\* earlier matches between the schools, already-played flag).
C17_SelectedIsMinimal ==
    [][SelectionStep =>
         LET p == result'[Len(result')]
         IN  /\ p \in Range(Candidates)
             /\ \A q \in Range(Candidates) : LexLeq(CostOf(p), CostOf(q))]_vars

\* the last match was selected at a step where another pair, with both teams
\* below games_per_team and not yet opponents, cost more
C17_Witness ==
    /\ pc = "bp_loop"
    /\ Len(result) >= 2
    /\ LET prior == SubSeq(result, 1, Len(result) - 1)
           p == result[Len(result)]
       IN  \E a, b \in Range(teams[level]) :
               /\ t2s(a) # t2s(b)
               /\ Appearances(prior, a) < games_per_team
               /\ Appearances(prior, b) < games_per_team
               /\ ~Played(prior, a, b)
               /\ ~LexLeq(CostIn(prior, <<a, b>>), CostIn(prior, p))

\* no inter-school pair of the roster has both teams below games_per_team
NoPairBelow ==
    ~\E a, b \in Range(teams[level]) :
        /\ t2s(a) # t2s(b)
        /\ Appearances(result, a) < games_per_team
        /\ Appearances(result, b) < games_per_team

\* C18: build_pairings raises RuntimeError (the StuckAssignmentError) exactly
\* at a step of the selection loop, before |teams| * G / 2 matches are selected,
\* at which no inter-school pair has both teams below games_per_team; it then
\* returns no list and takes no match back.
C18_StuckExactlyWhenNoPair ==
    [][/\ (pc = "bp_loop" /\ step < required_matches) =>
            /\ (pc' = "raised" /\ err' = "RuntimeError") <=> NoPairBelow
            /\ NoPairBelow => /\ result' = result
                              /\ pairings_by_level' = pairings_by_level
                              /\ level \notin DOMAIN pairings_by_level
       /\ (err' = "RuntimeError" /\ err # "RuntimeError") =>
            pc = "bp_loop" /\ step < required_matches]_vars

\* the call raised after it had selected matches
C18_Witness ==
    /\ pc = "raised" /\ err = "RuntimeError"
    /\ result # <<>>
    /\ Len(result) < required_matches

\* C19: when the selection loop of build_pairings completes, every team of the
\* roster has exactly games_per_team matches: the sanity check of lines 145-147
\* never raises AssertionError.
C19_SanityCheckNeverFails ==
    /\ (pc = "bp_loop" /\ step = required_matches) =>
          \A t \in Range(teams[level]) : degree[t] = games_per_team
    /\ ~(pc = "raised" /\ err = "AssertionError" /\ level \in DOMAIN teams)

\* the loop completed, its last selection made by the relaxation
C19_Witness ==
    /\ pc = "bp_loop"
    /\ step = required_matches
    /\ Len(result) >= 2
    /\ relaxed

\* the matches of a category in the session being filled
InSession(l) == IF l = "S1" THEN Len(s1_matches) ELSE Len(s2_matches)

\* the per-session target of a category: ceil(remaining / sessions left), taken
\* when the session began, before its matches left remaining
TargetOf(l) == Ceil(Len(remaining[l]) + InSession(l), Len(caps) - s_idx)

\* the category has no remaining match with both teams unused in the session
NoPlaceable(l) ==
    \A i \in DOMAIN remaining[l] :
        remaining[l][i][1] \in used \/ remaining[l][i][2] \in used

\* C20: with want_mix_each_session, a step of a planned session that places a
\* match of a category already at its target does so only when the other
\* category is at its target too or has no placeable match.
C20_AtTargetYieldsToOther ==
    [][(/\ pc = "fill"
        /\ want_mix_each_session
        /\ total_remaining' = total_remaining - 1) =>
          \A l \in DOMAIN remaining :
              (/\ remaining'[l] # remaining[l]
               /\ InSession(l) >= TargetOf(l)
               /\ OtherLevel(l) \in DOMAIN remaining)
                  => \/ InSession(OtherLevel(l)) >= TargetOf(OtherLevel(l))
                     \/ NoPlaceable(OtherLevel(l))]_vars

\* a planned session holds more matches of a category than its target while
\* the other category, still below its target, has matches left
C20_Witness ==
    /\ pc = "fill"
    /\ want_mix_each_session
    /\ \E l \in DOMAIN remaining :
          /\ InSession(l) > TargetOf(l)
          /\ OtherLevel(l) \in DOMAIN remaining
          /\ InSession(OtherLevel(l)) < TargetOf(OtherLevel(l))
          /\ remaining[OtherLevel(l)] # <<>>

\* the call has returned a list whose entries lie between 0 and rooms, sum to
\* total_matches, never increase and differ by at most 1
CapsShape ==
    LET c == cap_call.caps
    IN  /\ \A k \in DOMAIN c : 0 <= c[k] /\ c[k] <= cap_call.args.rooms
        /\ SumSeq(c) = cap_call.args.total_matches
        /\ \A k, m \in DOMAIN c : k < m => c[k] >= c[m] /\ c[k] - c[m] <= 1

\* C21: for rooms >= 1, total_matches >= 0 and min_sessions >= 1,
\* capacities_with_free_spread_at_end terminates, and the list it returns has
\* entries between 0 and rooms that sum to total_matches, is non-increasing and
\* has no two entries that differ by more than 1.
C21_CapacitiesTerminateAndSpread ==
    /\ <>(pc = "caps_returned")
    /\ [](pc = "caps_returned" => CapsShape)

\* a returned list for more free slots than sessions (the loop wrapped) whose
\* entries are not all equal
C21_Witness ==
    /\ pc = "caps_returned"
    /\ Len(cap_call.caps) * cap_call.args.rooms - cap_call.args.total_matches
          > Len(cap_call.caps)
    /\ cap_call.caps[1] # cap_call.caps[Len(cap_call.caps)]

\* schedule_sessions is running: called and neither returned nor raised
InScheduleSessions == pc \in {"ss_enter", "plan", "fill", "drain", "drain_fill"}

\* the assignments of category l in the schedule, in order, as matches
ScheduledOf(l) ==
    LET own == SelectSeq(Flatten(sessions), LAMBDA x : x[1] = l)
    IN  [k \in DOMAIN own |-> <<own[k][2], own[k][3]>>]

\* C22: no step of schedule_sessions, up to its return or its exception,
\* changes pairings_by_level: every list keeps its matches in their order.
C22_InputUnchanged ==
    [][InScheduleSessions => pairings_by_level' = pairings_by_level]_vars

\* the call returned a schedule that holds the matches of a category in
\* another order than the caller's list (the shuffle and the pops reordered
\* the private copy)
C22_Witness ==
    /\ pc = "returned"
    /\ \E l \in DOMAIN pairings_by_level :
          /\ Len(pairings_by_level[l]) >= 2
          /\ ScheduledOf(l) # pairings_by_level[l]

====
